---- MODULE Spec2Model ----
(***************************************************************************)
(* Easy Pruning (openclaw-easy-pruning): the pruning decision engine       *)
(* (pruner.ts, strategies.ts) and the per-session trigger/cooldown gate.   *)
(*                                                                         *)
(* Representation.                                                         *)
(*  - A JavaScript string is a sequence of characters, each character a    *)
(*    one-element TLA+ string ("a", "\n"); a character outside ASCII is an *)
(*    atom such as "u6700".  Roles are short and only measured, so they    *)
(*    stay TLA+ strings.                                                   *)
(*  - A JavaScript number is a record: a rational n/d (k = "fin"), NaN,    *)
(*    +Infinity, -Infinity, or "undef" for a value that is not a number    *)
(*    (absent, undefined).                                                 *)
(*  - Message content is a string, an array of blocks, or one structured   *)
(*    object; a message always carries a content field.                    *)
(*  - Object identity (next !== original) is the flag `same` returned by   *)
(*    a strategy beside the message value.                                 *)
(*  - The hook's event.messages is one array of the host: `ref` names the  *)
(*    array object, `items` its entries.  It is always an array; the host  *)
(*    pushes messages, empties it, and invokes the hook under any ctx.     *)
(*  - sessionState maps every key to its entry, `present` FALSE for a key  *)
(*    the Map does not hold.  ev records the invocation just made.         *)
(***************************************************************************)
EXTENDS Integers, Sequences, FiniteSets, TLC

VARIABLES
    raw, cfg1, cfg2,            \* normalizeConfig: input, result, result of the result
    pin, pcfg, pres,            \* applyPruningWithStats: list, config, result
    sin, sres,                  \* one strategy applied to one message
    config, messages, sessionState, now, ev   \* the before_agent_start hook

vars == <<raw, cfg1, cfg2, pin, pcfg, pres, sin, sres,
          config, messages, sessionState, now, ev>>

---------------------------------------------------------------------------
(* JavaScript numbers *)

Fin(n, d) == [k |-> "fin", n |-> n, d |-> d]
Int2Num(i) == Fin(i, 1)
NaN == [k |-> "nan", n |-> 0, d |-> 1]
PInf == [k |-> "pinf", n |-> 0, d |-> 1]
NInf == [k |-> "ninf", n |-> 0, d |-> 1]
Undef == [k |-> "undef", n |-> 0, d |-> 1]

\* typeof x === "number"
IsNumber(x) == x.k # "undef"

\* Number.isFinite(x): false for NaN, the infinities and every non-number
IsFinite(x) == x.k = "fin"

\* ToNumber(x) of a comparison or of Math.*: undefined becomes NaN
ToNum(x) == IF x.k = "undef" THEN NaN ELSE x

\* a < b
NumLt(a, b) ==
    LET x == ToNum(a)
        y == ToNum(b)
    IN  IF x.k = "nan" \/ y.k = "nan" THEN FALSE
        ELSE IF x.k = "fin" /\ y.k = "fin" THEN x.n * y.d < y.n * x.d
        ELSE IF x.k = "ninf" THEN y.k # "ninf"
        ELSE IF x.k = "pinf" THEN FALSE
        ELSE y.k = "pinf"

\* a <= b
NumLe(a, b) ==
    LET x == ToNum(a)
        y == ToNum(b)
    IN  IF x.k = "nan" \/ y.k = "nan" THEN FALSE
        ELSE IF x.k = "fin" /\ y.k = "fin" THEN x.n * y.d <= y.n * x.d
        ELSE IF x.k = "ninf" THEN TRUE
        ELSE IF x.k = "pinf" THEN y.k = "pinf"
        ELSE y.k = "pinf"

\* a >= b
NumGe(a, b) == NumLe(b, a)

\* Math.floor(x)
Floor(x) ==
    LET v == ToNum(x)
    IN  IF v.k = "fin" THEN Fin(v.n \div v.d, 1) ELSE v

\* Math.max(a, b)
NumMax(a, b) ==
    LET x == ToNum(a)
        y == ToNum(b)
    IN  IF x.k = "nan" \/ y.k = "nan" THEN NaN
        ELSE IF NumLt(x, y) THEN y ELSE x

\* i - x for an integer i
SubFrom(i, x) ==
    LET v == ToNum(x)
    IN  IF v.k = "fin" THEN Fin(i * v.d - v.n, v.d)
        ELSE IF v.k = "pinf" THEN NInf
        ELSE IF v.k = "ninf" THEN PInf
        ELSE NaN

\* The integer a string index argument denotes (ToIntegerOrInfinity), for a
\* non-negative x, clamped to the string's length as slice does.
SliceIndex(x, len) ==
    LET v == ToNum(x)
    IN  IF v.k = "nan" THEN 0
        ELSE IF v.k = "pinf" THEN len
        ELSE IF v.k = "ninf" THEN 0
        ELSE LET t == v.n \div v.d
             IN  IF t < 0 THEN 0 ELSE IF t > len THEN len ELSE t

---------------------------------------------------------------------------
(* JavaScript strings as character sequences *)

\* s.slice(from) and s.slice(0, to) with from, to in 0..Len(s)
SliceFrom(s, from) == SubSeq(s, from + 1, Len(s))
SliceTo(s, to) == SubSeq(s, 1, to)

\* whether pat occurs in s at 1-based position i
MatchAt(s, pat, i) ==
    /\ i + Len(pat) - 1 <= Len(s)
    /\ s[i] = pat[1]
    /\ SubSeq(s, i, i + Len(pat) - 1) = pat

\* s.includes(pat), pat not empty
Includes(s, pat) == \E i \in 1..Len(s) : MatchAt(s, pat, i)

\* s.lastIndexOf(pat) as a 1-based position, 0 when absent (JavaScript's -1)
LastIndexOf(s, pat) ==
    LET hits == {i \in 1..Len(s) : MatchAt(s, pat, i)}
    IN  IF hits = {} THEN 0 ELSE CHOOSE i \in hits : \A j \in hits : j <= i

UpperChars == <<"A", "B", "C", "D", "E", "F", "G", "H", "I", "J", "K", "L", "M", "N", "O", "P", "Q", "R", "S", "T", "U", "V", "W", "X", "Y", "Z">>
LowerChars == <<"a", "b", "c", "d", "e", "f", "g", "h", "i", "j", "k", "l", "m", "n", "o", "p", "q", "r", "s", "t", "u", "v", "w", "x", "y", "z">>

\* The lower-case letter of each upper-case letter
LowerOf ==
    [c \in {UpperChars[u] : u \in 1..Len(UpperChars)} |->
        LowerChars[CHOOSE u \in 1..Len(UpperChars) : UpperChars[u] = c]]

\* s.toLowerCase()
ToLowerCase(s) ==
    [i \in 1..Len(s) |-> IF s[i] \in DOMAIN LowerOf THEN LowerOf[s[i]] ELSE s[i]]

IsSpace(c) == c \in {" ", "\n", "\t", "\r"}

\* s.trim()
Trim(s) ==
    LET keep == {i \in 1..Len(s) : ~IsSpace(s[i])}
    IN  IF keep = {} THEN <<>>
        ELSE SubSeq(s, CHOOSE i \in keep : \A j \in keep : i <= j,
                       CHOOSE i \in keep : \A j \in keep : j <= i)

\* String(n) for an integer n >= 0
RECURSIVE Digits(_)
Digits(n) ==
    LET ds == <<"0", "1", "2", "3", "4", "5", "6", "7", "8", "9">>
    IN  IF n < 10 THEN <<ds[n + 1]>> ELSE Digits(n \div 10) \o <<ds[(n % 10) + 1]>>

\* parts.join("\n")
RECURSIVE JoinLines(_)
JoinLines(parts) ==
    IF Len(parts) = 0 THEN <<>>
    ELSE IF Len(parts) = 1 THEN parts[1]
    ELSE parts[1] \o <<"\n">> \o JoinLines(Tail(parts))

\* What JSON.stringify writes for one character inside a string literal
JsonEscapeChar(c) ==
    IF c = "\n" THEN <<"\\", "n">>
    ELSE IF c = "\t" THEN <<"\\", "t">>
    ELSE IF c = "\r" THEN <<"\\", "r">>
    ELSE IF c = "\"" THEN <<"\\", "\"">>
    ELSE IF c = "\\" THEN <<"\\", "\\">>
    ELSE <<c>>

\* The escaping JSON.stringify applies inside a string literal: every
\* character's escape, in order (the halves are escaped apart to keep the
\* recursion shallow)
RECURSIVE JsonEscape(_)
JsonEscape(s) ==
    IF Len(s) = 0 THEN <<>>
    ELSE IF Len(s) = 1 THEN JsonEscapeChar(s[1])
    ELSE JsonEscape(SubSeq(s, 1, Len(s) \div 2))
            \o JsonEscape(SubSeq(s, (Len(s) \div 2) + 1, Len(s)))

---------------------------------------------------------------------------
(* Messages and content *)

TextType == <<"t", "e", "x", "t">>
ThinkingType == <<"t", "h", "i", "n", "k", "i", "n", "g">>
ImageType == <<"i", "m", "a", "g", "e">>
\* the marker of an array item that is a plain string, not an object
StringItem == <<"#">>

\* An array item or structured value: {type, <key>: payload}.  isStr says the
\* payload is a string (typeof === "string"); otherwise text holds the digits
\* of a number payload.
Block(type, text, isStr) == [type |-> type, text |-> text, isStr |-> isStr]

\* { type: "text", text }
textBlock(text) == Block(TextType, text, TRUE)

Str(text) == [kind |-> "str", text |-> text, blocks |-> <<>>]
Blocks(bs) == [kind |-> "blocks", text |-> <<>>, blocks |-> bs]
Obj(b) == [kind |-> "obj", text |-> <<>>, blocks |-> <<b>>]

\* A list entry: a message object {role, content, id}, or (isObj = FALSE) a
\* value that is not an object (null, a number, a string).
Msg(role, content, id) == [isObj |-> TRUE, role |-> role, content |-> content, id |-> id]
NonObject == [isObj |-> FALSE, role |-> "", content |-> Str(<<>>), id |-> 0]

\* A new message that carries the content only
WithContent_ContentOnly(m, c) == [m EXCEPT !.content = c, !.id = 0]

\* { ...message, content }
WithContent(m, c) == [m EXCEPT !.content = c]

\* The property that holds a block's payload, by its type
PayloadKey(type) ==
    IF type = TextType THEN <<"t", "e", "x", "t">>
    ELSE IF type = ThinkingType THEN <<"t", "h", "i", "n", "k", "i", "n", "g">>
    ELSE <<"d", "a", "t", "a">>

\* JSON.stringify(block) of an object block
JsonStringify(b) ==
    <<"{", "\"", "t", "y", "p", "e", "\"", ":", "\"">> \o JsonEscape(b.type)
        \o <<"\"", ",", "\"">> \o PayloadKey(b.type) \o <<"\"", ":">>
        \o (IF b.isStr THEN <<"\"">> \o JsonEscape(b.text) \o <<"\"">> ELSE b.text)
        \o <<"}">>

---------------------------------------------------------------------------
(* Token estimator *)

TOKENS_PER_CHAR_ESTIMATE == 4
MESSAGE_OVERHEAD_CHARS == 16

\* estimateUnknownChars of one array item or structured value
estimateItemChars(b) ==
    IF b.type = StringItem THEN Len(b.text) ELSE Len(JsonStringify(b))

RECURSIVE SumItemChars(_)
SumItemChars(bs) ==
    IF bs = <<>> THEN 0 ELSE estimateItemChars(Head(bs)) + SumItemChars(Tail(bs))

estimateUnknownChars(content) ==
    IF content.kind = "str" THEN Len(content.text)
    ELSE IF content.kind = "blocks" THEN SumItemChars(content.blocks)
    ELSE Len(JsonStringify(content.blocks[1]))

\* Math.ceil(a / b) for a >= 0, b > 0
CeilDiv(a, b) == (a + b - 1) \div b

estimateMessageTokens(m) ==
    CeilDiv(Len(m.role) + estimateUnknownChars(m.content) + MESSAGE_OVERHEAD_CHARS,
            TOKENS_PER_CHAR_ESTIMATE)

RECURSIVE estimateContextTokens(_)
estimateContextTokens(ms) ==
    IF ms = <<>> THEN 0
    ELSE (IF Head(ms).isObj THEN estimateMessageTokens(Head(ms)) ELSE 0)
         + estimateContextTokens(Tail(ms))

---------------------------------------------------------------------------
(* Degradation strategies (strategies.ts) *)

roleOf(m) == m.role

isToolResultRole(role) == role = "tool_result" \/ role = "toolResult"

isAssistantRole(role) == role = "assistant"

\* hasImageContent of a string
hasImageText(text) ==
    LET lower == ToLowerCase(text)
    IN  \/ Includes(lower, <<"d", "a", "t", "a", ":", "i", "m", "a", "g", "e">>)
        \/ Includes(lower, <<".", "p", "n", "g">>)
        \/ Includes(lower, <<".", "j", "p", "g">>)

\* hasImageContent of an array item or a structured value: a block has no
\* image, images or url property, so only its type decides
hasImageItem(b) ==
    IF b.type = StringItem THEN hasImageText(b.text)
    ELSE Includes(ToLowerCase(b.type), <<"i", "m", "a", "g", "e">>)

hasImageContent(content) ==
    IF content.kind = "str" THEN hasImageText(content.text)
    ELSE \E i \in 1..Len(content.blocks) : hasImageItem(content.blocks[i])

\* The texts toUnifiedText collects from an array: string items and the
\* text blocks with a string payload
RECURSIVE UnifiedParts(_)
UnifiedParts(bs) ==
    IF bs = <<>> THEN <<>>
    ELSE LET b == Head(bs)
         IN  (IF b.type = StringItem \/ (b.type = TextType /\ b.isStr)
              THEN <<b.text>> ELSE <<>>) \o UnifiedParts(Tail(bs))

toUnifiedText(content) ==
    IF content.kind = "str" THEN content.text
    ELSE IF content.kind = "blocks" THEN JoinLines(UnifiedParts(content.blocks))
    ELSE JsonStringify(content.blocks[1])

\* preserveContentShape that always hands back the plain string
preserveContentShape_AlwaysString(original, text) == Str(text)

preserveContentShape(original, text) ==
    IF original.kind = "str" THEN Str(text)
    ELSE IF original.kind = "blocks" THEN Blocks(<<textBlock(text)>>)
    ELSE Str(text)

SummaryMarkers ==
    << <<"F", "i", "n", "a", "l", " ", "A", "n", "s", "w", "e", "r", ":">>,
       <<"F", "i", "n", "a", "l", ":">>,
       <<"S", "u", "m", "m", "a", "r", "y", ":">>,
       <<"C", "o", "n", "c", "l", "u", "s", "i", "o", "n", ":">>,
       <<"A", "n", "s", "w", "e", "r", ":">>,
       <<"R", "e", "s", "u", "l", "t", ":">>,
       <<"O", "u", "t", "p", "u", "t", ":">>,
       <<"u6700", "u7EC8", "u7ED3", "u8BBA">>,
       <<"u603B", "u7ED3">>,
       <<"u7ED3", "u8BBA">> >>

\* text.split(/\n\s*\n/g): the leftmost newline that a run of white space
\* ending in a newline follows starts a separator, which is as long as it can be
RECURSIVE SplitParagraphs(_)
SplitParagraphs(s) ==
    LET ends(i) == {j \in (i + 1)..Len(s) :
                        s[j] = "\n" /\ \A k \in (i + 1)..(j - 1) : IsSpace(s[k])}
        starts == {i \in 1..Len(s) : s[i] = "\n" /\ ends(i) # {}}
    IN  IF starts = {} THEN <<s>>
        ELSE LET i == CHOOSE x \in starts : \A y \in starts : x <= y
                 j == CHOOSE x \in ends(i) : \A y \in ends(i) : y <= x
             IN  <<SubSeq(s, 1, i - 1)>> \o SplitParagraphs(SubSeq(s, j + 1, Len(s)))

\* The non-empty trimmed paragraphs, in order
RECURSIVE TrimmedParagraphs(_)
TrimmedParagraphs(ps) ==
    IF ps = <<>> THEN <<>>
    ELSE (IF Trim(Head(ps)) = <<>> THEN <<>> ELSE <<Trim(Head(ps))>>)
         \o TrimmedParagraphs(Tail(ps))

\* The loop over the markers from marker number m on: the first marker that
\* occurs decides.  <<>> stands for null.
RECURSIVE SummaryFromMarker(_, _)
SummaryFromMarker(text, m) ==
    IF m > Len(SummaryMarkers) THEN <<>>
    ELSE LET idx == LastIndexOf(text, SummaryMarkers[m])
             sliced == IF idx = 0 THEN <<>> ELSE Trim(SliceFrom(text, idx - 1))
         IN  IF Len(sliced) > 0 THEN sliced ELSE SummaryFromMarker(text, m + 1)

\* <<>> stands for null: a summary returned is never empty
extractFinalSummary(text) ==
    LET marked == SummaryFromMarker(text, 1)
        paras == TrimmedParagraphs(SplitParagraphs(text))
    IN  IF marked # <<>> THEN marked
        ELSE IF Len(paras) = 0 THEN <<>>
        ELSE paras[Len(paras)]

SoftMarkerHead == <<"\n", "\n", ".", ".", ".", " ", "(", "t", "r", "u", "n", "c", "a", "t", "e", "d", ")", "\n", "\n", "[", "O", "r", "i", "g", "i", "n", "a", "l", " ", "s", "i", "z", "e", ":", " ">>
SoftMarkerTail == <<" ", "c", "h", "a", "r", "a", "c", "t", "e", "r", "s", "]", "\n">>
DetailPrefix == <<"[", "P", "r", "o", "c", "e", "s", "s", " ", "d", "e", "t", "a", "i", "l", "s", " ", "p", "r", "u", "n", "e", "d", "]", "\n", "\n">>

\* A boolean option is "true" or "false"; an input config may leave it "absent"
IsTrue(b) == b = "true"

\* A strategy's result: the message, and whether it is the very object it was given
Same(m) == [same |-> TRUE, msg |-> m]
Fresh(m) == [same |-> FALSE, msg |-> m]

\* applySoftPruning without its image guard
applySoftPruning_NoImageGuard(m, cfg) ==
    IF ~isToolResultRole(roleOf(m)) THEN Same(m)
    ELSE LET text == toUnifiedText(m.content)
             len == Len(text)
         IN  IF NumLe(Int2Num(len), cfg.soft_trim.max_chars) THEN Same(m)
             ELSE LET headEnd == SliceIndex(NumMax(Int2Num(0), cfg.soft_trim.head_chars), len)
                      tailStart == SliceIndex(
                          NumMax(Int2Num(0),
                                 SubFrom(len, NumMax(Int2Num(0), cfg.soft_trim.tail_chars))),
                          len)
                      soft == SliceTo(text, headEnd) \o SoftMarkerHead \o Digits(len)
                                  \o SoftMarkerTail \o SliceFrom(text, tailStart)
                  IN  Fresh(WithContent(m, preserveContentShape(m.content, soft)))

applySoftPruning(m, cfg) ==
    IF ~isToolResultRole(roleOf(m)) THEN Same(m)
    ELSE IF IsTrue(cfg.skip_tools_with_images) /\ hasImageContent(m.content) THEN Same(m)
    ELSE LET text == toUnifiedText(m.content)
             len == Len(text)
         IN  IF NumLe(Int2Num(len), cfg.soft_trim.max_chars) THEN Same(m)
             ELSE LET headEnd == SliceIndex(NumMax(Int2Num(0), cfg.soft_trim.head_chars), len)
                      tailStart == SliceIndex(
                          NumMax(Int2Num(0),
                                 SubFrom(len, NumMax(Int2Num(0), cfg.soft_trim.tail_chars))),
                          len)
                      soft == SliceTo(text, headEnd) \o SoftMarkerHead \o Digits(len)
                                  \o SoftMarkerTail \o SliceFrom(text, tailStart)
                  IN  Fresh(WithContent(m, preserveContentShape(m.content, soft)))

\* applyHardPruning without its role check
applyHardPruning_NoRoleCheck(m, cfg) ==
    IF IsTrue(cfg.skip_tools_with_images) /\ hasImageContent(m.content) THEN Same(m)
    ELSE Fresh(WithContent(m, preserveContentShape(m.content, cfg.hard_clear_placeholder)))

applyHardPruning(m, cfg) ==
    IF ~isToolResultRole(roleOf(m)) THEN Same(m)
    ELSE IF IsTrue(cfg.skip_tools_with_images) /\ hasImageContent(m.content) THEN Same(m)
    ELSE Fresh(WithContent(m, preserveContentShape(m.content, cfg.hard_clear_placeholder)))

\* The filter that keeps every text-typed block, whatever its payload
RECURSIVE TextBlocksOf_AnyPayload(_)
TextBlocksOf_AnyPayload(bs) ==
    IF bs = <<>> THEN <<>>
    ELSE (IF Head(bs).type = TextType THEN <<Head(bs)>> ELSE <<>>)
         \o TextBlocksOf_AnyPayload(Tail(bs))

\* content.filter(...) of the assistant branch
RECURSIVE TextBlocksOf(_)
TextBlocksOf(bs) ==
    IF bs = <<>> THEN <<>>
    ELSE (IF Head(bs).type = TextType /\ Head(bs).isStr THEN <<Head(bs)>> ELSE <<>>)
         \o TextBlocksOf(Tail(bs))

applyDetailPruning(m, cfg) ==
    LET role == roleOf(m)
    IN  IF role = "user" \/ role = "system" THEN Same(m)
        ELSE IF isAssistantRole(role) THEN
            IF m.content.kind = "str" THEN Same(m)
            ELSE IF m.content.kind = "blocks" THEN
                LET textBlocks == TextBlocksOf(m.content.blocks)
                IN  IF Len(textBlocks) > 0 THEN Fresh(WithContent(m, Blocks(textBlocks)))
                    ELSE Fresh(WithContent(m, Blocks(<<textBlock(cfg.detail_placeholder)>>)))
            ELSE Fresh(WithContent(m, Str(cfg.detail_placeholder)))
        ELSE IF isToolResultRole(role) THEN
            IF IsTrue(cfg.skip_tools_with_images) /\ hasImageContent(m.content) THEN Same(m)
            ELSE LET summary == extractFinalSummary(toUnifiedText(m.content))
                 IN  IF summary # <<>>
                     THEN Fresh(WithContent(m,
                              preserveContentShape(m.content, DetailPrefix \o summary)))
                     ELSE Fresh(WithContent(m,
                              preserveContentShape(m.content, cfg.detail_placeholder)))
        ELSE Same(m)

\* strategies[zone].apply(message)
applyStrategy(zone, m, cfg) ==
    IF zone = "soft" THEN applySoftPruning(m, cfg)
    ELSE IF zone = "hard" THEN applyHardPruning(m, cfg)
    ELSE applyDetailPruning(m, cfg)

---------------------------------------------------------------------------
(* Pruning orchestrator (pruner.ts) *)

MaxInt(a, b) == IF a < b THEN b ELSE a
MinInt(a, b) == IF a < b THEN a ELSE b

\* buildMessageMeta from list position i (1-based) on, the token cursor at
\* cursor.  index is the 0-based index of the code; tokenMid2 is twice
\* tokenMid, which may be a half.
RECURSIVE MetaFrom(_, _, _)
MetaFrom(ms, i, cursor) ==
    IF i > Len(ms) THEN <<>>
    ELSE IF ~ms[i].isObj THEN MetaFrom(ms, i + 1, cursor)
    ELSE LET tokenCount == MaxInt(1, estimateMessageTokens(ms[i]))
             tokenEnd == cursor + tokenCount
         IN  << [index |-> i - 1,
                 message |-> ms[i],
                 role |-> ms[i].role,
                 tokenCount |-> tokenCount,
                 tokenStart |-> cursor,
                 tokenEnd |-> tokenEnd,
                 tokenMid2 |-> 2 * cursor + tokenCount] >>
             \o MetaFrom(ms, i + 1, tokenEnd)

buildMessageMeta(ms) == MetaFrom(ms, 1, 0)

\* resolveThresholdToToken that reads every value as a fraction of the total
resolveThresholdToToken_AlwaysRatio(value, totalTokens) ==
    IF ~IsFinite(value) \/ NumLt(value, Int2Num(0)) THEN 0
    ELSE (totalTokens * value.n) \div value.d

resolveThresholdToToken(value, totalTokens) ==
    IF ~IsFinite(value) \/ NumLt(value, Int2Num(0)) THEN 0
    ELSE IF NumLt(value, Int2Num(1)) THEN (totalTokens * value.n) \div value.d
    ELSE MinInt(totalTokens, value.n \div value.d)

\* tokenMid2 is twice the tokenMid of the code
resolveZone(tokenMid2, softStart, hardStart, detailStart) ==
    IF tokenMid2 < 2 * softStart THEN "none"
    ELSE IF tokenMid2 < 2 * hardStart THEN "soft"
    ELSE IF tokenMid2 < 2 * detailStart THEN "hard"
    ELSE "detail"

\* totalTokens of a list with at least one message object
totalTokensOf(metas) == metas[Len(metas)].tokenEnd

keepRecentStartToken(metas, cfg) ==
    NumMax(Int2Num(0), SubFrom(totalTokensOf(metas), cfg.keep_recent_tokens))

\* keepRecentMessageStartIndex one too far: the tail by count one message short
keepRecentMessageStartIndex_OffByOne(ms, cfg) ==
    NumMax(Int2Num(0), SubFrom(Len(ms) + 1, cfg.keep_recent_messages))

keepRecentMessageStartIndex(ms, cfg) ==
    NumMax(Int2Num(0), SubFrom(Len(ms), cfg.keep_recent_messages))

\* The first loop: whether the meta's index goes into protectedIndices
isProtected(meta, ms, metas, cfg) ==
    \/ meta.role = "user" \/ meta.role = "system"
    \/ NumGe(Int2Num(meta.index), keepRecentMessageStartIndex(ms, cfg))
    \/ NumGe(Int2Num(meta.tokenStart), keepRecentStartToken(metas, cfg))

softStartOf(metas, cfg) == resolveThresholdToToken(cfg.soft_threshold, totalTokensOf(metas))

\* hardStart without the raise to softStart
hardStartOf_NotRaised(metas, cfg) ==
    resolveThresholdToToken(cfg.hard_threshold, totalTokensOf(metas))

hardStartOf(metas, cfg) ==
    MaxInt(softStartOf(metas, cfg),
           resolveThresholdToToken(cfg.hard_threshold, totalTokensOf(metas)))

detailStartOf(metas, cfg) ==
    MaxInt(hardStartOf(metas, cfg),
           resolveThresholdToToken(cfg.detail_threshold, totalTokensOf(metas)))

\* The zone whose strategy the second loop applies to the meta; "skip" when
\* it applies none (protected, in the recent tokens, or zone none)
zoneApplied(meta, ms, metas, cfg) ==
    IF isProtected(meta, ms, metas, cfg) THEN "skip"
    ELSE IF NumGe(Fin(meta.tokenMid2, 2), keepRecentStartToken(metas, cfg)) THEN "skip"
    ELSE LET zone == resolveZone(meta.tokenMid2, softStartOf(metas, cfg),
                                 hardStartOf(metas, cfg), detailStartOf(metas, cfg))
         IN  IF zone = "none" THEN "skip" ELSE zone

\* One pass of the second loop over a meta: the zone, and the strategy's result
stepOf(meta, ms, metas, cfg) ==
    LET zone == zoneApplied(meta, ms, metas, cfg)
    IN  IF zone = "skip" THEN [zone |-> zone, same |-> TRUE, msg |-> meta.message]
        ELSE LET next == applyStrategy(zone, meta.message, cfg)
             IN  [zone |-> zone, same |-> next.same, msg |-> next.msg]

\* The second loop over the metas: per meta its index, the zone applied,
\* the original message and the strategy's result
stepsOf(ms, metas, cfg) ==
    [k \in 1..Len(metas) |->
        LET st == stepOf(metas[k], ms, metas, cfg)
        IN  [index |-> metas[k].index, zone |-> st.zone, same |-> st.same,
             orig |-> metas[k].message, msg |-> st.msg]]

\* delta = Math.max(0, before - after) of one replaced message
stepDelta(step) ==
    MaxInt(0, estimateMessageTokens(step.orig) - estimateMessageTokens(step.msg))

\* The deltas of the messages the given zone replaced, summed
RECURSIVE zoneDelta(_, _, _)
zoneDelta(steps, k, zone) ==
    IF k > Len(steps) THEN 0
    ELSE (IF steps[k].zone = zone /\ ~steps[k].same THEN stepDelta(steps[k]) ELSE 0)
         + zoneDelta(steps, k + 1, zone)

\* out = messages.slice() with out[meta.index] = next for every replaced message
outOf(ms, steps) ==
    [i \in 1..Len(ms) |->
        IF \E k \in 1..Len(steps) : steps[k].index = i - 1 /\ ~steps[k].same
        THEN steps[CHOOSE k \in 1..Len(steps) : steps[k].index = i - 1].msg
        ELSE ms[i]]

\* The statistics of a pass before the final token counts are known
statsOf(ms, metas, steps, cfg) ==
    LET changedIn(zone) ==
            Cardinality({k \in 1..Len(steps) : steps[k].zone = zone /\ ~steps[k].same})
    IN  [contextTokensBefore |-> metas[Len(metas)].tokenEnd,
         contextTokensAfter |-> metas[Len(metas)].tokenEnd,
         deletedTokens |-> 0,
         totalMessages |-> Len(ms),
         protectedMessages |->
            Cardinality({k \in 1..Len(metas) : isProtected(metas[k], ms, metas, cfg)}),
         changedMessages |-> Cardinality({k \in 1..Len(steps) : ~steps[k].same}),
         zoneChanged |-> [soft |-> changedIn("soft"),
                          hard |-> changedIn("hard"),
                          detail |-> changedIn("detail")],
         zoneDeletedTokens |-> [soft |-> zoneDelta(steps, 1, "soft"),
                                hard |-> zoneDelta(steps, 1, "hard"),
                                detail |-> zoneDelta(steps, 1, "detail")]]

\* finishStats without the clamp of deletedTokens
finishStats_NoClamp(stats, afterTokens) ==
    [stats EXCEPT !.contextTokensAfter = afterTokens,
                  !.deletedTokens = stats.contextTokensBefore - afterTokens]

\* The end of a pass that changed a message: the token count of the new
\* list, and the deleted tokens clamped at zero
finishStats(stats, afterTokens) ==
    [stats EXCEPT !.contextTokensAfter = afterTokens,
                  !.deletedTokens = MaxInt(0, stats.contextTokensBefore - afterTokens)]

\* The result of a pass that hands back the copy whether or not it changed
pruneResult_AlwaysCopy(ms, metas, steps, out, cfg) ==
    [messages |-> out, sameRef |-> FALSE,
     fresh |-> {steps[k].index : k \in {x \in 1..Len(steps) : ~steps[x].same}},
     stats |-> finishStats(statsOf(ms, metas, steps, cfg), estimateContextTokens(out))]

\* The result of a pass: the list returned, whether it is the input list
\* itself, the 0-based indices that hold a new message object, the statistics
pruneResult(ms, metas, steps, out, cfg) ==
    LET fresh == {steps[k].index : k \in {x \in 1..Len(steps) : ~steps[x].same}}
        stats == statsOf(ms, metas, steps, cfg)
    IN  IF fresh = {}
        THEN [messages |-> ms, sameRef |-> TRUE, fresh |-> {}, stats |-> stats]
        ELSE [messages |-> out, sameRef |-> FALSE, fresh |-> fresh,
              stats |-> finishStats(stats, estimateContextTokens(out))]

\* The sets of one element bind metas, steps and out to their values, so
\* that each is computed once.
applyPruningWithStats(ms, cfg) ==
    CHOOSE result \in
        {IF Len(metas) = 0
         THEN [messages |-> ms, sameRef |-> TRUE, fresh |-> {},
               stats |-> [contextTokensBefore |-> 0,
                          contextTokensAfter |-> 0,
                          deletedTokens |-> 0,
                          totalMessages |-> Len(ms),
                          protectedMessages |-> 0,
                          changedMessages |-> 0,
                          zoneChanged |-> [soft |-> 0, hard |-> 0, detail |-> 0],
                          zoneDeletedTokens |-> [soft |-> 0, hard |-> 0, detail |-> 0]]]
         ELSE CHOOSE r \in
                {pruneResult(ms, metas, steps, outOf(ms, steps), cfg) :
                    steps \in {stepsOf(ms, metas, cfg)}} : TRUE
         : metas \in {buildMessageMeta(ms)}} : TRUE

applyPruning(ms, cfg) == applyPruningWithStats(ms, cfg).messages

---------------------------------------------------------------------------
(* Configuration (pruner.ts normalizeConfig; the defaults of the test suite) *)

\* The defaults the test suite normalizes against; keep_rencent_message is
\* the alias key, which defaults never carry
DefaultConfig ==
    [pruning_threshold |-> Int2Num(100),
     trigger_every_n_tokens |-> Int2Num(20),
     keep_recent_tokens |-> Int2Num(20),
     keep_recent_messages |-> Int2Num(2),
     keep_rencent_message |-> Undef,
     soft_threshold |-> Fin(3, 10),
     hard_threshold |-> Fin(6, 10),
     detail_threshold |-> Fin(85, 100),
     soft_trim |-> [max_chars |-> Int2Num(40),
                    head_chars |-> Int2Num(10),
                    tail_chars |-> Int2Num(10)],
     hard_clear_placeholder |-> <<"[", "C", "L", "E", "A", "R", "E", "D", "]">>,
     detail_placeholder |-> <<"[", "D", "E", "T", "A", "I", "L", "_", "P", "R", "U", "N", "E", "D", "]">>,
     skip_tools_with_images |-> "true"]

safePositiveInt(value, fallback) ==
    IF ~IsFinite(value) \/ NumLe(value, Int2Num(0)) THEN fallback ELSE Floor(value)

safeNonNegativeNumber(value, fallback) ==
    IF ~IsFinite(value) \/ NumLt(value, Int2Num(0)) THEN fallback ELSE value

\* { ...defaults, ...input } for one numeric key: an input without the key
\* (Undef) leaves the default
SpreadNum(d, i) == IF i.k = "undef" THEN d ELSE i

\* keepRecentMessagesRaw that does not read the alias key
keepRecentMessagesRaw_NoAlias(defaults, input) ==
    IF IsNumber(input.keep_recent_messages) THEN input.keep_recent_messages
    ELSE defaults.keep_recent_messages

keepRecentMessagesRaw(defaults, input) ==
    IF IsNumber(input.keep_recent_messages) THEN input.keep_recent_messages
    ELSE IF IsNumber(input.keep_rencent_message) THEN input.keep_rencent_message
    ELSE defaults.keep_recent_messages

\* An input config has the shape of a config; a key it does not give is
\* Undef (numbers), <<>> (placeholders) or "absent" (the flag)
normalizeConfig(defaults, input) ==
    LET trim(f) == SpreadNum(defaults.soft_trim[f], input.soft_trim[f])
        hard == IF input.hard_clear_placeholder # <<>>
                THEN input.hard_clear_placeholder ELSE defaults.hard_clear_placeholder
        detail == IF input.detail_placeholder # <<>>
                  THEN input.detail_placeholder ELSE defaults.detail_placeholder
    IN  [pruning_threshold |->
            safePositiveInt(SpreadNum(defaults.pruning_threshold, input.pruning_threshold),
                            defaults.pruning_threshold),
         trigger_every_n_tokens |->
            safePositiveInt(SpreadNum(defaults.trigger_every_n_tokens,
                                      input.trigger_every_n_tokens),
                            defaults.trigger_every_n_tokens),
         keep_recent_tokens |->
            safePositiveInt(SpreadNum(defaults.keep_recent_tokens, input.keep_recent_tokens),
                            defaults.keep_recent_tokens),
         keep_recent_messages |->
            NumMax(Int2Num(0), Floor(keepRecentMessagesRaw(defaults, input))),
         keep_rencent_message |->
            SpreadNum(defaults.keep_rencent_message, input.keep_rencent_message),
         soft_threshold |->
            safeNonNegativeNumber(SpreadNum(defaults.soft_threshold, input.soft_threshold),
                                  defaults.soft_threshold),
         hard_threshold |->
            safeNonNegativeNumber(SpreadNum(defaults.hard_threshold, input.hard_threshold),
                                  defaults.hard_threshold),
         detail_threshold |->
            safeNonNegativeNumber(SpreadNum(defaults.detail_threshold, input.detail_threshold),
                                  defaults.detail_threshold),
         soft_trim |->
            [max_chars |-> safePositiveInt(trim("max_chars"), defaults.soft_trim.max_chars),
             head_chars |-> safePositiveInt(trim("head_chars"), defaults.soft_trim.head_chars),
             tail_chars |-> safePositiveInt(trim("tail_chars"), defaults.soft_trim.tail_chars)],
         hard_clear_placeholder |->
            IF hard # <<>> THEN hard ELSE defaults.hard_clear_placeholder,
         detail_placeholder |->
            IF detail # <<>> THEN detail ELSE defaults.detail_placeholder,
         skip_tools_with_images |->
            IF input.skip_tools_with_images = "absent"
            THEN defaults.skip_tools_with_images ELSE input.skip_tools_with_images]

---------------------------------------------------------------------------
(* normalizeConfig applied to input configs, and to its own result *)

\* The value of a variable another specification owns
Idle == <<>>

\* Numbers an input config may give: absent, not finite, negative, zero,
\* fractions below and above one, and integers
NumSamples ==
    {Undef, NaN, PInf, NInf, Int2Num(-3), Int2Num(0), Fin(1, 2), Fin(5, 2), Int2Num(7)}

TrimSamples == {Undef, NaN, Fin(1, 2), Int2Num(9)}

NumericKeys ==
    {"pruning_threshold", "trigger_every_n_tokens", "keep_recent_tokens",
     "keep_recent_messages", "keep_rencent_message",
     "soft_threshold", "hard_threshold", "detail_threshold"}

\* The input config that gives no key
EmptyInput ==
    [pruning_threshold |-> Undef,
     trigger_every_n_tokens |-> Undef,
     keep_recent_tokens |-> Undef,
     keep_recent_messages |-> Undef,
     keep_rencent_message |-> Undef,
     soft_threshold |-> Undef,
     hard_threshold |-> Undef,
     detail_threshold |-> Undef,
     soft_trim |-> [max_chars |-> Undef, head_chars |-> Undef, tail_chars |-> Undef],
     hard_clear_placeholder |-> <<>>,
     detail_placeholder |-> <<>>,
     skip_tools_with_images |-> "absent"]

\* Input configs: up to two top-level numeric keys, two soft_trim budgets,
\* a placeholder and the flag given
RawConfigs ==
    {[EmptyInput EXCEPT ![f] = x, ![g] = y,
                        !.soft_trim.max_chars = t, !.soft_trim.head_chars = u,
                        !.hard_clear_placeholder = p,
                        !.skip_tools_with_images = b] :
        f \in NumericKeys, g \in NumericKeys, x \in NumSamples, y \in NumSamples,
        t \in TrimSamples, u \in TrimSamples,
        p \in {<<>>, <<"x">>}, b \in {"absent", "false"}}

InitCfg ==
    /\ raw \in RawConfigs
    /\ cfg1 = Idle /\ cfg2 = Idle
    /\ pin = Idle /\ pcfg = Idle /\ pres = Idle /\ sin = Idle /\ sres = Idle
    /\ config = Idle /\ messages = Idle /\ sessionState = Idle /\ now = 0 /\ ev = Idle

\* register(): config = normalizeConfig(defaultConfig, rawConfig)
Normalize ==
    /\ raw # Idle /\ cfg1 = Idle
    /\ cfg1' = <<normalizeConfig(DefaultConfig, raw)>>
    /\ UNCHANGED <<raw, cfg2, pin, pcfg, pres, sin, sres,
                   config, messages, sessionState, now, ev>>

\* normalizeConfig applied to a config it returned
Renormalize ==
    /\ cfg1 # Idle /\ cfg2 = Idle
    /\ cfg2' = <<normalizeConfig(DefaultConfig, cfg1[1])>>
    /\ UNCHANGED <<raw, cfg1, pin, pcfg, pres, sin, sres,
                   config, messages, sessionState, now, ev>>

NextCfg == Normalize \/ Renormalize

SpecCfg == InitCfg /\ [][NextCfg]_vars

\* A finite integer >= lo
IsIntAtLeast(x, lo) == IsFinite(x) /\ x.d = 1 /\ x.n >= lo

\* C7: normalizeConfig is idempotent: normalizing the config it returned
\* for any input config returns that same config.
C7_NormalizeIdempotent == cfg2 # Idle => cfg2 = cfg1

\* C8: after normalizeConfig the count fields are finite integers >= 1
\* (>= 0 for keep_recent_messages) and the thresholds finite numbers >= 0.
C8_NumericFieldsSafe ==
    cfg1 # Idle =>
        LET c == cfg1[1]
        IN  /\ IsIntAtLeast(c.pruning_threshold, 1)
            /\ IsIntAtLeast(c.trigger_every_n_tokens, 1)
            /\ IsIntAtLeast(c.keep_recent_tokens, 1)
            /\ IsIntAtLeast(c.keep_recent_messages, 0)
            /\ IsIntAtLeast(c.soft_trim.max_chars, 1)
            /\ IsIntAtLeast(c.soft_trim.head_chars, 1)
            /\ IsIntAtLeast(c.soft_trim.tail_chars, 1)
            /\ IsFinite(c.soft_threshold) /\ NumGe(c.soft_threshold, Int2Num(0))
            /\ IsFinite(c.hard_threshold) /\ NumGe(c.hard_threshold, Int2Num(0))
            /\ IsFinite(c.detail_threshold) /\ NumGe(c.detail_threshold, Int2Num(0))

---------------------------------------------------------------------------
(* applyPruningWithStats and the strategies applied to bounded inputs *)

\* The longest message list tried
MaxLen == 3

\* The character c, n times
Rep(c, n) == [i \in 1..n |-> c]

\* "SOUL"
SoulText == <<"S", "O", "U", "L">>
\* Sixty characters of a user's prose that ends like a summary
UserText == Rep("u", 50) \o <<" ", "R", "e", "s", "u", "l", "t", ":", " ", "x">>
\* Ninety characters of tool output that ends in a summary paragraph
ToolText == Rep("A", 77) \o <<"\n", "\n", "S", "u", "m", "m", "a", "r", "y", ":", " ", "o", "k">>
\* "ok"
OkText == <<"o", "k">>

SystemMsg == Msg("system", Str(SoulText), 1)
UserMsg == Msg("user", Str(UserText), 2)
AssistantMsg ==
    Msg("assistant",
        Blocks(<<Block(ThinkingType, <<"s", "e", "c", "r", "e", "t">>, TRUE),
                 textBlock(<<"f", "i", "n", "a", "l", " ", "r", "e", "p", "l", "y">>)>>), 3)
ToolMsg == Msg("tool_result", Str(ToolText), 4)
ToolBlocksMsg == Msg("toolResult", Blocks(<<textBlock(Rep("B", 50))>>), 5)
SmallToolMsg == Msg("tool_result", Str(OkText), 6)


PruneMsgs ==
    {SystemMsg, UserMsg, AssistantMsg, ToolMsg, ToolBlocksMsg, SmallToolMsg, NonObject}

PruneLists == UNION {[1..n -> PruneMsgs] : n \in 0..MaxLen}

\* Threshold triples: the defaults, everything in the detail zone,
\* everything in the hard zone (an absolute detail position past the end),
\* an inverted triple, and values that are not usable
ThresholdTriples ==
    {<<Fin(3, 10), Fin(6, 10), Fin(85, 100)>>,
     <<Int2Num(0), Int2Num(0), Int2Num(0)>>,
     <<Int2Num(0), Int2Num(0), Int2Num(1000)>>,
     <<Fin(85, 100), Fin(6, 10), Fin(3, 10)>>,
     <<NaN, Int2Num(-1), PInf>>}

\* soft_trim budgets: the defaults, and budgets that keep the whole text
TrimBudgets ==
    {[max_chars |-> Int2Num(40), head_chars |-> Int2Num(10), tail_chars |-> Int2Num(10)],
     [max_chars |-> Int2Num(1), head_chars |-> Int2Num(60), tail_chars |-> Int2Num(60)]}

PruneConfig(krt, krm, th, tb) ==
    [DefaultConfig EXCEPT !.keep_recent_tokens = krt,
                          !.keep_recent_messages = krm,
                          !.soft_threshold = th[1],
                          !.hard_threshold = th[2],
                          !.detail_threshold = th[3],
                          !.soft_trim = tb]

\* Configs: every triple with and without the recent tails; absolute
\* positions; everything in the soft zone under both budgets; a
\* keep_recent_messages that is not a number
PruneConfigs ==
    {PruneConfig(krt, krm, th, DefaultConfig.soft_trim) :
        krt \in {Int2Num(0), Int2Num(20)}, krm \in {Int2Num(0), Int2Num(1)},
        th \in ThresholdTriples}
    \cup {PruneConfig(Int2Num(0), Int2Num(0), <<Int2Num(1), Int2Num(20), Int2Num(40)>>,
                      DefaultConfig.soft_trim)}
    \cup {PruneConfig(Int2Num(0), Int2Num(0), <<Int2Num(0), Int2Num(1000), Int2Num(1000)>>, tb) :
            tb \in TrimBudgets}
    \cup {PruneConfig(Int2Num(0), NaN, <<Int2Num(0), Int2Num(0), Int2Num(1000)>>,
                      DefaultConfig.soft_trim)}

InitPrune ==
    /\ pin \in PruneLists
    /\ pcfg \in PruneConfigs
    /\ pres = Idle /\ sin = Idle /\ sres = Idle
    /\ raw = Idle /\ cfg1 = Idle /\ cfg2 = Idle
    /\ config = Idle /\ messages = Idle /\ sessionState = Idle /\ now = 0 /\ ev = Idle

\* applyPruningWithStats(messages, config)
ApplyPruning ==
    /\ pcfg # Idle
    /\ pres = Idle /\ sres = Idle
    /\ pres' = <<applyPruningWithStats(pin, pcfg)>>
    /\ UNCHANGED <<raw, cfg1, cfg2, pin, pcfg, sin, sres,
                   config, messages, sessionState, now, ev>>

\* One strategy applied directly to the first entry of the list, a message object
ApplyStrategy(zone) ==
    /\ pres = Idle /\ sres = Idle
    /\ Len(pin) > 0 /\ pin[1].isObj
    /\ sin' = <<pin[1]>>
    /\ sres' = <<[zone |-> zone, result |-> applyStrategy(zone, pin[1], pcfg)]>>
    /\ UNCHANGED <<raw, cfg1, cfg2, pin, pcfg, pres,
                   config, messages, sessionState, now, ev>>

NextPrune ==
    \/ ApplyPruning
    \/ \E zone \in {"soft", "hard", "detail"} : ApplyStrategy(zone)

SpecPrune == InitPrune /\ [][NextPrune]_vars


---------------------------------------------------------------------------
(* Properties of applyPruning and the strategies *)

\* Entry i (1-based) of the pass's output is the very message of the input
Unaltered(i) == pres[1].messages[i] = pin[i] /\ (i - 1) \notin pres[1].fresh

\* The meta of list entry i (1-based), a message object
MetaOf(metas, i) == metas[CHOOSE k \in 1..Len(metas) : metas[k].index = i - 1]

\* C1: applyPruning leaves every message whose role is "system" or "user"
\* unaltered, the same value at the same index, and each of the three
\* strategies applied directly to such a message returns it unchanged.
C1_UserSystemUnaltered ==
    /\ pres # Idle =>
        \A i \in 1..Len(pin) :
            (pin[i].isObj /\ pin[i].role \in {"system", "user"}) => Unaltered(i)
    /\ sres # Idle =>
        (sin[1].role \in {"system", "user"} =>
            sres[1].result.same /\ sres[1].result.msg = sin[1])

\* A pass that altered a message and left alone a user message which is
\* outside both recent tails and sits in the detail zone
C1_Witness ==
    /\ pres # Idle
    /\ pres[1].fresh # {}
    /\ LET metas == buildMessageMeta(pin)
       IN  \E k \in 1..Len(metas) :
            /\ metas[k].role = "user"
            /\ ~NumGe(Int2Num(metas[k].index), keepRecentMessageStartIndex(pin, pcfg))
            /\ ~NumGe(Fin(metas[k].tokenMid2, 2), keepRecentStartToken(metas, pcfg))
            /\ resolveZone(metas[k].tokenMid2, softStartOf(metas, pcfg),
                           hardStartOf(metas, pcfg), detailStartOf(metas, pcfg)) = "detail"

\* C2: applyPruning never alters an entry whose index is at least
\* length - keep_recent_messages, nor a message whose span starts at or
\* after total tokens - keep_recent_tokens.
C2_RecentTailUnaltered ==
    pres # Idle =>
        LET metas == buildMessageMeta(pin)
        IN  \A i \in 1..Len(pin) :
                \/ NumGe(Int2Num(i - 1), SubFrom(Len(pin), pcfg.keep_recent_messages))
                \/ /\ pin[i].isObj
                   /\ NumGe(Int2Num(MetaOf(metas, i).tokenStart),
                            SubFrom(totalTokensOf(metas), pcfg.keep_recent_tokens))
                => Unaltered(i)

\* A pass that altered a message and left alone two tool results a strategy
\* would clear: one in the tail by count, one in the tail by tokens only
C2_Witness ==
    /\ pres # Idle
    /\ pres[1].fresh # {}
    /\ LET metas == buildMessageMeta(pin)
           clearable(k) == isToolResultRole(metas[k].role)
                           /\ ~applyHardPruning(metas[k].message, pcfg).same
           byCount(k) == NumGe(Int2Num(metas[k].index),
                               SubFrom(Len(pin), pcfg.keep_recent_messages))
           byTokens(k) == NumGe(Int2Num(metas[k].tokenStart),
                                SubFrom(totalTokensOf(metas), pcfg.keep_recent_tokens))
       IN  /\ \E k \in 1..Len(metas) : clearable(k) /\ byCount(k)
           /\ \E k \in 1..Len(metas) : clearable(k) /\ byTokens(k) /\ ~byCount(k)

ZoneRank(zone) ==
    IF zone = "none" THEN 0 ELSE IF zone = "soft" THEN 1 ELSE IF zone = "hard" THEN 2 ELSE 3

\* The zone resolveZone gives the meta against the resolved boundaries
ZoneOfMeta(meta, metas, cfg) ==
    resolveZone(meta.tokenMid2, softStartOf(metas, cfg),
                hardStartOf(metas, cfg), detailStartOf(metas, cfg))

\* C9: the resolved boundaries satisfy 0 <= soft <= hard <= detail <= total,
\* and of two non-protected messages the one with the smaller tokenMid is
\* never in a later zone.
C9_BoundariesOrdered ==
    pres # Idle =>
        LET metas == buildMessageMeta(pin)
        IN  Len(metas) > 0 =>
                /\ 0 <= softStartOf(metas, pcfg)
                /\ softStartOf(metas, pcfg) <= hardStartOf(metas, pcfg)
                /\ hardStartOf(metas, pcfg) <= detailStartOf(metas, pcfg)
                /\ detailStartOf(metas, pcfg) <= totalTokensOf(metas)
                /\ \A a, b \in 1..Len(metas) :
                        (/\ ~isProtected(metas[a], pin, metas, pcfg)
                         /\ ~isProtected(metas[b], pin, metas, pcfg)
                         /\ metas[a].tokenMid2 < metas[b].tokenMid2)
                        => ZoneRank(ZoneOfMeta(metas[a], metas, pcfg))
                            <= ZoneRank(ZoneOfMeta(metas[b], metas, pcfg))

\* A pass under inverted thresholds (hard below soft, detail below hard)
\* over two non-protected messages in different zones
C9_Witness ==
    /\ pres # Idle
    /\ NumLt(pcfg.hard_threshold, pcfg.soft_threshold)
    /\ NumLt(pcfg.detail_threshold, pcfg.hard_threshold)
    /\ LET metas == buildMessageMeta(pin)
       IN  \E a, b \in 1..Len(metas) :
            /\ ~isProtected(metas[a], pin, metas, pcfg)
            /\ ~isProtected(metas[b], pin, metas, pcfg)
            /\ ZoneOfMeta(metas[a], metas, pcfg) # ZoneOfMeta(metas[b], metas, pcfg)

---------------------------------------------------------------------------
(* createBeforeAgentStartHandler: the hook over the host's message array *)

\* The longest message array the host builds
HookMaxLen == 3
\* The cap on a session's pruneCount
MaxPrunes == 2
\* The last reading of the clock
MaxNow == 2

\* The ctx of an invocation; an id that is absent or empty is ""
Contexts ==
    {[sessionKey |-> "a", sessionId |-> "b"],
     [sessionKey |-> "", sessionId |-> "a"],
     [sessionKey |-> "", sessionId |-> ""]}

\* The key that overlooks ctx.sessionId
sessionKeyOf_IgnoresSessionId(ctx) ==
    IF ctx.sessionKey # "" THEN ctx.sessionKey ELSE "__global__"

\* ctx.sessionKey || ctx.sessionId || "__global__"
sessionKeyOf(ctx) ==
    IF ctx.sessionKey # "" THEN ctx.sessionKey
    ELSE IF ctx.sessionId # "" THEN ctx.sessionId
    ELSE "__global__"

SessionKeys == {sessionKeyOf(ctx) : ctx \in Contexts}

\* A key without an entry in the sessionState Map, read as
\* sessionState.get(key) ?? the zero state
NoState ==
    [present |-> FALSE, lastTriggerTokenCount |-> 0, lastTriggeredAt |-> 0, pruneCount |-> 0]

\* The threshold test that never holds
belowThreshold_Never(totalTokens, cfg) == FALSE

\* totalTokens < config.pruning_threshold
belowThreshold(totalTokens, cfg) == NumLt(Int2Num(totalTokens), cfg.pruning_threshold)

\* The growth measured without the clamp at 0
tokensSinceLast_Unclamped(totalTokens, state) ==
    IF totalTokens >= state.lastTriggerTokenCount
    THEN totalTokens - state.lastTriggerTokenCount
    ELSE state.lastTriggerTokenCount - totalTokens

\* Math.max(0, totalTokens - state.lastTriggerTokenCount)
tokensSinceLast(totalTokens, state) ==
    MaxInt(0, totalTokens - state.lastTriggerTokenCount)

\* The cooldown test without its pruneCount condition
cooldownActive_AnyCount(totalTokens, state, cfg) ==
    NumLt(Int2Num(tokensSinceLast(totalTokens, state)), cfg.trigger_every_n_tokens)

\* state.pruneCount > 0 && tokensSinceLast < config.trigger_every_n_tokens
cooldownActive(totalTokens, state, cfg) ==
    /\ state.pruneCount > 0
    /\ NumLt(Int2Num(tokensSinceLast(totalTokens, state)), cfg.trigger_every_n_tokens)

\* sameArrayShallow(a, b): equal lengths and a[i] === b[i] throughout; the
\* entries of b that are new objects are those at the indices in fresh
sameArrayShallow(a, b, fresh) ==
    /\ Len(a) = Len(b)
    /\ \A i \in 1..Len(a) : (i - 1) \notin fresh

\* The state update that records the token count of changed passes only
triggerState_OnlyOnChange(state, totalTokens, at, changed) ==
    [present |-> TRUE,
     lastTriggerTokenCount |-> IF changed THEN totalTokens ELSE state.lastTriggerTokenCount,
     lastTriggeredAt |-> at,
     pruneCount |-> state.pruneCount + (IF changed THEN 1 ELSE 0)]

\* The state the handler sets for the key after a pass
triggerState(state, totalTokens, at, changed) ==
    [present |-> TRUE,
     lastTriggerTokenCount |-> totalTokens,
     lastTriggeredAt |-> at,
     pruneCount |-> state.pruneCount + (IF changed THEN 1 ELSE 0)]

\* The pruned list handed back in a new array
repopulate_NewArray(arr, items) == [ref |-> arr.ref + 1, items |-> items]

\* messages.length = 0; messages.push(...result.messages): the array
\* object (ref) stays, its entries are replaced
repopulate(arr, items) == [arr EXCEPT !.items = items]

ZeroStats == applyPruningWithStats(<<>>, DefaultConfig).stats

\* The record of one invocation: what it saw and what it decided
Invocation(key, totalTokens, outcome, changed, fresh, stats) ==
    <<[key |-> key, totalTokens |-> totalTokens, outcome |-> outcome,
       changed |-> changed, fresh |-> fresh, stats |-> stats,
       before |-> messages, stateBefore |-> sessionState]>>

\* An invocation that returns early
Return(key, totalTokens, outcome) ==
    /\ ev' = Invocation(key, totalTokens, outcome, FALSE, {}, ZeroStats)
    /\ UNCHANGED <<messages, sessionState>>

\* The handler, for event.messages the host's array
HookInvoke(ctx) ==
    /\ \A k \in SessionKeys : sessionState[k].pruneCount < MaxPrunes
    /\ UNCHANGED <<raw, cfg1, cfg2, pin, pcfg, pres, sin, sres, config, now>>
    /\ LET key == sessionKeyOf(ctx)
           state == sessionState[key]
       IN  IF Len(messages.items) = 0 THEN Return(key, 0, "empty")
           ELSE \E totalTokens \in {estimateContextTokens(messages.items)} :
                IF belowThreshold(totalTokens, config) THEN Return(key, totalTokens, "below")
                ELSE IF cooldownActive(totalTokens, state, config)
                     THEN Return(key, totalTokens, "cooldown")
                ELSE \E result \in {applyPruningWithStats(messages.items, config)} :
                     \E changed \in {~sameArrayShallow(messages.items, result.messages,
                                                       result.fresh)} :
                        /\ sessionState' =
                            [sessionState EXCEPT
                                ![key] = triggerState(state, totalTokens, now, changed)]
                        /\ messages' = IF changed THEN repopulate(messages, result.messages)
                                       ELSE messages
                        /\ ev' = Invocation(key, totalTokens, "pass", changed,
                                            result.fresh, result.stats)

\* The host pushes a message
Push(m) ==
    /\ Len(messages.items) < HookMaxLen
    /\ messages' = [messages EXCEPT !.items = Append(@, m)]
    /\ ev' = Idle
    /\ UNCHANGED <<raw, cfg1, cfg2, pin, pcfg, pres, sin, sres, config, sessionState, now>>

\* The host starts the conversation over in the same array
Clear ==
    /\ Len(messages.items) > 0
    /\ messages' = [messages EXCEPT !.items = <<>>]
    /\ ev' = Idle
    /\ UNCHANGED <<raw, cfg1, cfg2, pin, pcfg, pres, sin, sres, config, sessionState, now>>

\* Date.now() moves on
Tick ==
    /\ now < MaxNow
    /\ now' = now + 1
    /\ ev' = Idle
    /\ UNCHANGED <<raw, cfg1, cfg2, pin, pcfg, pres, sin, sres, config, messages, sessionState>>

HookMsgs == {UserMsg, ToolMsg, SmallToolMsg}

\* register(): the normalized config the handler is created with
HookConfigs ==
    {normalizeConfig(DefaultConfig,
        [EmptyInput EXCEPT !.pruning_threshold = Int2Num(40),
                           !.keep_recent_messages = Int2Num(1),
                           !.soft_threshold = th[1],
                           !.hard_threshold = th[2],
                           !.detail_threshold = th[3]]) :
        th \in {<<Fin(3, 10), Fin(6, 10), Fin(85, 100)>>}}

Init ==
    /\ config \in HookConfigs
    /\ messages = [ref |-> 0, items |-> <<>>]
    /\ sessionState = [k \in SessionKeys |-> NoState]
    /\ now = 1
    /\ ev = Idle
    /\ raw = Idle /\ cfg1 = Idle /\ cfg2 = Idle
    /\ pin = Idle /\ pcfg = Idle /\ pres = Idle /\ sin = Idle /\ sres = Idle

Next ==
    \/ \E ctx \in Contexts : HookInvoke(ctx)
    \/ \E m \in HookMsgs : Push(m)
    \/ Clear
    \/ Tick

Spec == Init /\ [][Next]_vars

---------------------------------------------------------------------------
(* Properties of the hook *)

\* The invocation just made, and the state its key had before it
LastInvocation == ev[1]
StateBefore == ev[1].stateBefore[ev[1].key]
AtThreshold ==
    /\ ev # Idle
    /\ Len(ev[1].before.items) > 0
    /\ NumGe(Int2Num(estimateContextTokens(ev[1].before.items)), config.pruning_threshold)
GrowthSinceLast ==
    estimateContextTokens(ev[1].before.items) - StateBefore.lastTriggerTokenCount

\* C3 as claimed: the first invocation of a session at or above
\* pruning_threshold runs a pass, and after a pass, changed or not, every
\* invocation is skipped until the context has grown by at least
\* trigger_every_n_tokens over the token count recorded by that pass.
C3_CooldownAfterAnyPass ==
    AtThreshold =>
        /\ ~StateBefore.present => LastInvocation.outcome = "pass"
        /\ StateBefore.present =>
            IF NumLt(Int2Num(GrowthSinceLast), config.trigger_every_n_tokens)
            THEN LastInvocation.outcome = "cooldown"
            ELSE LastInvocation.outcome = "pass"

\* C3 amended: while the session's pruneCount is 0 every invocation at or
\* above pruning_threshold runs a pass, the first one and each one after a
\* pass that changed nothing; once pruneCount is positive an invocation at
\* or above the threshold is skipped exactly when the context has grown by
\* less than trigger_every_n_tokens over the token count recorded by the
\* last pass, and runs a pass otherwise.
C3_CooldownAfterPrune ==
    AtThreshold =>
        /\ StateBefore.pruneCount = 0 => LastInvocation.outcome = "pass"
        /\ StateBefore.pruneCount > 0 =>
            IF NumLt(Int2Num(GrowthSinceLast), config.trigger_every_n_tokens)
            THEN LastInvocation.outcome = "cooldown"
            ELSE LastInvocation.outcome = "pass"

\* A pass run again right after a pass of the same session that changed
\* nothing, with no growth of the context
C3_Witness ==
    /\ AtThreshold
    /\ LastInvocation.outcome = "pass"
    /\ StateBefore.present /\ StateBefore.pruneCount = 0
    /\ GrowthSinceLast = 0

\* C4: an invocation on a context below pruning_threshold runs no pass and
\* leaves the message array and the whole sessionState Map as they were.
C4_BelowThresholdUntouched ==
    (/\ ev # Idle
     /\ NumLt(Int2Num(estimateContextTokens(ev[1].before.items)), config.pruning_threshold))
    => /\ LastInvocation.outcome \in {"empty", "below"}
       /\ messages = LastInvocation.before
       /\ sessionState = LastInvocation.stateBefore

\* An invocation below the threshold on a non-empty array, for a session
\* that has pruned before
C4_Witness ==
    /\ ev # Idle
    /\ LastInvocation.outcome = "below"
    /\ StateBefore.pruneCount > 0

\* C5: after a pass at context size T the session has lastTriggerTokenCount
\* = T whether or not a message was replaced, and pruneCount one higher if
\* a message was replaced and as before otherwise; no invocation lowers a
\* pruneCount.
C5_TriggerStateAfterPass ==
    ev # Idle =>
        /\ \A k \in SessionKeys :
            sessionState[k].pruneCount >= LastInvocation.stateBefore[k].pruneCount
        /\ LastInvocation.outcome = "pass" =>
            LET after == sessionState[LastInvocation.key]
            IN  /\ after.present
                /\ after.lastTriggerTokenCount =
                        estimateContextTokens(LastInvocation.before.items)
                /\ after.pruneCount =
                        StateBefore.pruneCount
                            + (IF LastInvocation.fresh # {} THEN 1 ELSE 0)

\* A pass that changed nothing, in a session that has pruned before at
\* another context size
C5_Witness ==
    /\ ev # Idle
    /\ LastInvocation.outcome = "pass"
    /\ LastInvocation.fresh = {}
    /\ StateBefore.pruneCount > 0
    /\ StateBefore.lastTriggerTokenCount # LastInvocation.totalTokens

\* C10: an invocation leaves the host with the same array object; when no
\* message was replaced the array is as it was, and otherwise it holds a
\* list of the same length with each message at the index it had.
C10_SameContainer ==
    ev # Idle =>
        LET before == LastInvocation.before
        IN  /\ messages.ref = before.ref
            /\ LastInvocation.fresh = {} => messages = before
            /\ LastInvocation.fresh # {} =>
                /\ Len(messages.items) = Len(before.items)
                /\ \A i \in 1..Len(before.items) :
                    IF (i - 1) \in LastInvocation.fresh
                    THEN /\ messages.items[i].id = before.items[i].id
                         /\ messages.items[i].role = before.items[i].role
                    ELSE messages.items[i] = before.items[i]

\* A pass that replaced a message of an array of three different messages
C10_Witness ==
    /\ ev # Idle
    /\ LastInvocation.fresh # {}
    /\ messages.items # LastInvocation.before.items
    /\ Len(messages.items) = 3
    /\ \A i, j \in 1..3 : i # j => messages.items[i].id # messages.items[j].id

---------------------------------------------------------------------------
(* Further properties of applyPruningWithStats, the strategies and
   normalizeConfig *)

\* The meta is neither protected nor in the recent tokens, and its zone is
\* not none: the second loop hands its message to a strategy
HandedToStrategy(meta, ms, metas, cfg) ==
    /\ ~isProtected(meta, ms, metas, cfg)
    /\ ~NumGe(Fin(meta.tokenMid2, 2), keepRecentStartToken(metas, cfg))
    /\ ZoneOfMeta(meta, metas, cfg) # "none"

\* Some strategy of the pass over pin returned a new message object
SomeStrategyReplaced ==
    LET metas == buildMessageMeta(pin)
    IN  \E k \in 1..Len(metas) :
            /\ HandedToStrategy(metas[k], pin, metas, pcfg)
            /\ ~applyStrategy(ZoneOfMeta(metas[k], metas, pcfg), metas[k].message, pcfg).same

\* C11: applyPruningWithStats returns the input list itself, with
\* changedMessages = 0 and contextTokensAfter = contextTokensBefore, exactly
\* when no strategy returned a new message object, and a new list exactly
\* when some strategy did.
C11_SameListIffNoChange ==
    pres # Idle =>
        /\ pres[1].sameRef <=> ~SomeStrategyReplaced
        /\ pres[1].sameRef =>
            /\ pres[1].messages = pin
            /\ pres[1].fresh = {}
            /\ pres[1].stats.changedMessages = 0
            /\ pres[1].stats.contextTokensAfter = pres[1].stats.contextTokensBefore
        /\ ~pres[1].sameRef => pres[1].stats.changedMessages > 0

\* A pass that handed a message to a strategy, got every message back as
\* it was, and returned the input list
C11_Witness ==
    /\ pres # Idle
    /\ pres[1].sameRef
    /\ LET metas == buildMessageMeta(pin)
       IN  \E k \in 1..Len(metas) : HandedToStrategy(metas[k], pin, metas, pcfg)

---------------------------------------------------------------------------
(* The three strategies applied directly to one message *)

\* Fifty characters that end in a file name of an image
ImageText == Rep("x", 45) \o <<"a", ".", "p", "n", "g">>

ImageToolMsg == Msg("tool_result", Str(ImageText), 7)
ImageBlocksMsg ==
    Msg("toolResult",
        Blocks(<<Block(StringItem, Rep("s", 30), TRUE),
                 Block(ImageType, <<"A", "A">>, TRUE),
                 textBlock(Rep("t", 30))>>), 8)
MixedBlocksMsg ==
    Msg("tool_result",
        Blocks(<<Block(StringItem, Rep("s", 30), TRUE),
                 Block(ThinkingType, <<"h", "m">>, TRUE),
                 textBlock(Rep("t", 30))>>), 9)
ObjectToolMsg == Msg("tool_result", Obj(Block(ThinkingType, Rep("d", 50), TRUE)), 10)
OtherRoleMsg == Msg("tool", Str(ToolText), 11)
AssistantStringMsg == Msg("assistant", Str(ToolText), 12)
AssistantNoTextMsg ==
    Msg("assistant",
        Blocks(<<Block(ThinkingType, <<"h", "m">>, TRUE),
                 Block(TextType, <<"4", "2">>, FALSE),
                 Block(StringItem, <<"h", "i">>, TRUE)>>), 13)
AssistantManyMsg ==
    Msg("assistant",
        Blocks(<<textBlock(<<"o", "n", "e">>),
                 Block(ThinkingType, <<"h", "m">>, TRUE),
                 Block(TextType, <<"4", "2">>, FALSE),
                 textBlock(<<"t", "w", "o">>),
                 Block(ImageType, <<"A", "A">>, TRUE),
                 textBlock(<<"o", "n", "e">>)>>), 14)
AssistantObjectMsg == Msg("assistant", Obj(Block(ThinkingType, <<"h", "m">>, TRUE)), 15)

StrategyMsgs ==
    {SystemMsg, UserMsg, AssistantMsg, ToolMsg, ToolBlocksMsg, SmallToolMsg,
     ImageToolMsg, ImageBlocksMsg, MixedBlocksMsg, ObjectToolMsg, OtherRoleMsg,
     AssistantStringMsg, AssistantNoTextMsg, AssistantManyMsg, AssistantObjectMsg}

\* soft_trim budgets: the defaults, budgets longer than the text, no head
StrategyBudgets ==
    TrimBudgets \cup
    {[max_chars |-> Int2Num(40), head_chars |-> Int2Num(0), tail_chars |-> Int2Num(10)]}

StrategyConfigs ==
    {[DefaultConfig EXCEPT !.soft_trim = tb, !.skip_tools_with_images = skip] :
        tb \in StrategyBudgets, skip \in {"true", "false"}}

InitStrategy ==
    /\ sin \in {<<m>> : m \in StrategyMsgs}
    /\ pcfg \in StrategyConfigs
    /\ sres = Idle /\ pin = Idle /\ pres = Idle
    /\ raw = Idle /\ cfg1 = Idle /\ cfg2 = Idle
    /\ config = Idle /\ messages = Idle /\ sessionState = Idle /\ now = 0 /\ ev = Idle

\* strategies[zone].apply(message, { config, zone })
Apply(zone) ==
    /\ pin = Idle /\ sin # Idle /\ sres = Idle
    /\ sres' = <<[zone |-> zone, result |-> applyStrategy(zone, sin[1], pcfg)]>>
    /\ UNCHANGED <<raw, cfg1, cfg2, pin, pcfg, pres, sin,
                   config, messages, sessionState, now, ev>>

NextStrategy == \E zone \in {"soft", "hard", "detail"} : Apply(zone)

SpecStrategy == InitStrategy /\ [][NextStrategy]_vars

\* The strategy of the zone has been applied to a message of the role set
Applied(zone, roles) == sres # Idle /\ sres[1].zone = zone /\ sin[1].role \in roles
ToolRoles == {"tool_result", "toolResult"}
ImageSkipped == IsTrue(pcfg.skip_tools_with_images) /\ hasImageContent(sin[1].content)

\* C12 as claimed: hard pruning of a tool-result message always yields
\* content equal to hard_clear_placeholder in the shape of the original
\* content, a string for a string and one text block for a block sequence.
C12_HardAlwaysClears ==
    Applied("hard", ToolRoles) =>
        sres[1].result.msg.content =
            (IF sin[1].content.kind = "blocks"
             THEN Blocks(<<textBlock(pcfg.hard_clear_placeholder)>>)
             ELSE Str(pcfg.hard_clear_placeholder))

\* C12 amended: hard pruning of a tool-result message returns the message
\* itself when skip_tools_with_images is set and the content holds an
\* image; otherwise a new message whose content is hard_clear_placeholder,
\* as one text block for a block sequence and as a plain string for a
\* string or any other content.
C12_HardClearsUnlessImage ==
    Applied("hard", ToolRoles) =>
        IF ImageSkipped
        THEN sres[1].result.same /\ sres[1].result.msg = sin[1]
        ELSE /\ ~sres[1].result.same
             /\ sres[1].result.msg.content =
                    (IF sin[1].content.kind = "blocks"
                     THEN Blocks(<<textBlock(pcfg.hard_clear_placeholder)>>)
                     ELSE Str(pcfg.hard_clear_placeholder))

\* Hard pruning has been applied to a tool result whose content is a block
\* sequence with an image, under a config that skips images
C12_Witness ==
    /\ Applied("hard", ToolRoles)
    /\ sin[1].content.kind = "blocks"
    /\ ImageSkipped

\* The text a strategy's result holds: the string, or the text of the
\* first block
ResultText ==
    LET c == sres[1].result.msg.content
    IN  IF c.kind = "blocks" THEN c.blocks[1].text ELSE c.text

TruncatedMarker ==
    <<".", ".", ".", " ", "(", "t", "r", "u", "n", "c", "a", "t", "e", "d", ")">>
OriginalSizeMarker ==
    <<"O", "r", "i", "g", "i", "n", "a", "l", " ", "s", "i", "z", "e">>

\* The text between the head and the tail of a trimmed text of len characters
ElisionOf(len) == SoftMarkerHead \o Digits(len) \o SoftMarkerTail

\* The result of the soft strategy is a new message whose text is the first
\* h and the last t characters of the flattened text around the elision
TrimmedTo(h, t) ==
    LET text == toUnifiedText(sin[1].content)
        len == Len(text)
    IN  /\ ~sres[1].result.same
        /\ Includes(ResultText, TruncatedMarker)
        /\ Includes(ResultText, OriginalSizeMarker)
        /\ Len(ResultText) = h + t + Len(ElisionOf(len))
        /\ ResultText = SubSeq(text, 1, h) \o ElisionOf(len) \o SubSeq(text, len - t + 1, len)
        /\ sres[1].result.msg.content.kind =
                (IF sin[1].content.kind = "blocks" THEN "blocks" ELSE "str")

\* C13 as claimed: soft pruning of a tool-result message returns the
\* message itself when its flattened text has at most max_chars characters,
\* and otherwise a new message holding the first head_chars and the last
\* tail_chars characters around the elision marker and the original-size
\* annotation, of length head_chars + tail_chars + the marker.
C13_SoftHeadAndTail ==
    Applied("soft", ToolRoles) =>
        IF Len(toUnifiedText(sin[1].content)) <= pcfg.soft_trim.max_chars.n
        THEN sres[1].result.same /\ sres[1].result.msg = sin[1]
        ELSE TrimmedTo(pcfg.soft_trim.head_chars.n, pcfg.soft_trim.tail_chars.n)

\* C13 amended: soft pruning of a tool-result message returns the message
\* itself when skip_tools_with_images is set and the content holds an
\* image, or when its flattened text has at most max_chars characters;
\* otherwise a new message holding the first min(head_chars, length) and
\* the last min(tail_chars, length) characters around the elision marker
\* and the original-size annotation, of that length plus the marker.
C13_SoftHeadAndTailWithin ==
    Applied("soft", ToolRoles) =>
        LET len == Len(toUnifiedText(sin[1].content))
        IN  IF ImageSkipped \/ len <= pcfg.soft_trim.max_chars.n
            THEN sres[1].result.same /\ sres[1].result.msg = sin[1]
            ELSE TrimmedTo(MinInt(pcfg.soft_trim.head_chars.n, len),
                           MinInt(pcfg.soft_trim.tail_chars.n, len))

\* Soft pruning has trimmed a tool result under budgets longer than its text
C13_Witness ==
    /\ Applied("soft", ToolRoles)
    /\ ~sres[1].result.same
    /\ pcfg.soft_trim.head_chars.n > Len(toUnifiedText(sin[1].content))

\* The block is an object of type "text" whose text is a string
IsStringTextBlock(b) == b.type = TextType /\ b.isStr

\* C14: detail pruning of an assistant message whose content is a block
\* sequence yields a new message holding exactly the text blocks with a
\* string payload, in their order, or one text block with
\* detail_placeholder when there is none; an assistant message whose
\* content is a string is returned as it is.
C14_DetailKeepsTextBlocks ==
    Applied("detail", {"assistant"}) =>
        /\ sin[1].content.kind = "str" =>
            sres[1].result.same /\ sres[1].result.msg = sin[1]
        /\ sin[1].content.kind = "blocks" =>
            LET kept == SelectSeq(sin[1].content.blocks, IsStringTextBlock)
            IN  /\ ~sres[1].result.same
                /\ sres[1].result.msg.content =
                    (IF kept # <<>> THEN Blocks(kept)
                     ELSE Blocks(<<textBlock(pcfg.detail_placeholder)>>))

\* Detail pruning has been applied to an assistant message that holds
\* several text blocks among a text-typed block with a number payload and
\* blocks of other types
C14_Witness ==
    /\ Applied("detail", {"assistant"})
    /\ sin[1].content.kind = "blocks"
    /\ Len(SelectSeq(sin[1].content.blocks, IsStringTextBlock)) > 1
    /\ \E i \in 1..Len(sin[1].content.blocks) :
        sin[1].content.blocks[i].type = TextType /\ ~sin[1].content.blocks[i].isStr

---------------------------------------------------------------------------
(* Zone assignment *)

\* The boundary the claim gives a threshold value: a fraction of the total
\* below 1, an absolute position clamped to [0, total] from 1 on; +Infinity
\* is then the total, and NaN, for which it gives no rule, is 0
ClaimedBoundary(value, total) ==
    IF value.k = "pinf" THEN total
    ELSE IF value.k # "fin" THEN 0
    ELSE IF value.n < value.d THEN (total * value.n) \div value.d
    ELSE MinInt(total, MaxInt(0, value.n \div value.d))

\* The boundary of a threshold value: 0 for a value that is negative or not
\* finite, floor(total * value) below 1, min(total, floor(value)) from 1 on
Boundary(value, total) ==
    IF value.k # "fin" \/ value.n < 0 THEN 0
    ELSE IF value.n < value.d THEN (total * value.n) \div value.d
    ELSE MinInt(total, value.n \div value.d)

\* Every message of pin is handled as its zone says, the zones being
\* resolved from the boundaries of the three thresholds (those of the claim
\* if claimed), the hard one raised to the soft one and the detail one to
\* the hard one
HandledByZone(claimed) ==
    LET B(value, t) == IF claimed THEN ClaimedBoundary(value, t) ELSE Boundary(value, t)
        metas == buildMessageMeta(pin)
        total == metas[Len(metas)].tokenEnd
        soft == B(pcfg.soft_threshold, total)
        hard == MaxInt(soft, B(pcfg.hard_threshold, total))
        detail == MaxInt(hard, B(pcfg.detail_threshold, total))
        zone(k) == IF metas[k].tokenMid2 < 2 * soft THEN "none"
                   ELSE IF metas[k].tokenMid2 < 2 * hard THEN "soft"
                   ELSE IF metas[k].tokenMid2 < 2 * detail THEN "hard"
                   ELSE "detail"
        prunable(k) == /\ ~isProtected(metas[k], pin, metas, pcfg)
                       /\ metas[k].tokenMid2 < 2 * (total - pcfg.keep_recent_tokens.n)
        result(k) == applyStrategy(zone(k), metas[k].message, pcfg)
        replaced(z) == {k \in 1..Len(metas) :
                            prunable(k) /\ zone(k) = z /\ ~result(k).same}
    IN  Len(metas) > 0 =>
            /\ \A k \in 1..Len(metas) :
                IF prunable(k) /\ zone(k) # "none"
                THEN /\ pres[1].messages[metas[k].index + 1] = result(k).msg
                     /\ metas[k].index \in pres[1].fresh <=> ~result(k).same
                ELSE Unaltered(metas[k].index + 1)
            /\ \A z \in {"soft", "hard", "detail"} :
                pres[1].stats.zoneChanged[z] = Cardinality(replaced(z))

\* C15 as claimed: each message that is not protected and whose tokenMid is
\* below total - keep_recent_tokens gets the strategy of the one zone its
\* tokenMid falls in, a threshold below 1 being floor(total * value) and one
\* from 1 on the absolute position clamped to [0, total]; every other
\* message gets no strategy.
C15_ZoneByBoundaries == pres # Idle => HandledByZone(TRUE)

\* C15 amended: as claimed, with the boundary of a threshold that is
\* negative or not finite being 0, and that of a value from 1 on being
\* min(total, floor(value)).
C15_ZoneByResolvedBoundaries == pres # Idle => HandledByZone(FALSE)

\* A pass under absolute thresholds that replaced a message in the soft
\* zone and one in the detail zone
C15_Witness ==
    /\ pres # Idle
    /\ NumGe(pcfg.soft_threshold, Int2Num(1)) /\ IsFinite(pcfg.detail_threshold)
    /\ pres[1].stats.zoneChanged.soft > 0
    /\ pres[1].stats.zoneChanged.detail > 0

---------------------------------------------------------------------------
(* The alias key of normalizeConfig *)

\* typeof x === "number": NaN and the infinities are numbers too
IsNumeric(x) == x.k \in {"fin", "nan", "pinf", "ninf"}

\* Math.max(0, Math.floor(x)), which is x itself for NaN and +Infinity
FlooredAtLeastZero(x) ==
    IF x.k = "fin" THEN Int2Num(MaxInt(0, x.n \div x.d))
    ELSE IF x.k = "ninf" THEN Int2Num(0)
    ELSE x

\* C16: the normalized keep_recent_messages is the floor, at least 0, of the
\* raw keep_recent_messages when that is a number, else of the raw
\* keep_rencent_message when that is a number, else of the default.
C16_AliasKey ==
    cfg1 # Idle =>
        cfg1[1].keep_recent_messages =
            FlooredAtLeastZero(
                IF IsNumeric(raw.keep_recent_messages) THEN raw.keep_recent_messages
                ELSE IF IsNumeric(raw.keep_rencent_message) THEN raw.keep_rencent_message
                ELSE DefaultConfig.keep_recent_messages)

\* normalizeConfig has read a fraction above one from the alias key of a
\* config without keep_recent_messages
C16_Witness ==
    /\ cfg1 # Idle
    /\ raw.keep_recent_messages = Undef
    /\ raw.keep_rencent_message = Fin(5, 2)
    /\ cfg1[1].keep_recent_messages = Int2Num(2)

---------------------------------------------------------------------------
(* The frame of applyPruning *)

\* C17: applyPruning leaves the input list and its messages as they were
\* and returns a list of the same length in which every entry that is not
\* an object and every message not replaced is the input's entry at that
\* index, and every replaced message is a new object that equals the
\* original in every field but content.
C17_NoInPlaceMutation ==
    [][(pres = Idle /\ pres' # Idle) =>
        LET out == pres'[1].messages
            fresh == pres'[1].fresh
        IN  /\ pin' = pin
            /\ Len(out) = Len(pin)
            /\ \A i \in 1..Len(pin) :
                IF (i - 1) \in fresh
                THEN /\ pin[i].isObj
                     /\ [out[i] EXCEPT !.content = pin[i].content] = pin[i]
                ELSE out[i] = pin[i]]_vars

\* A pass over three entries, one of them not an object, that replaced a
\* message
C17_Witness ==
    /\ pres # Idle
    /\ Len(pin) = 3
    /\ \E i \in 1..3 : ~pin[i].isObj
    /\ pres[1].fresh # {}

---------------------------------------------------------------------------
(* Further properties of the hook *)

PassStep(k) ==
    /\ ev' # Idle
    /\ ev'[1].stateBefore = sessionState
    /\ ev'[1].before = messages
    /\ ev'[1].key = k
    /\ ev'[1].outcome = "pass"

KeyOfSession(ctx) ==
    CASE ctx.sessionKey # "" -> ctx.sessionKey
      [] ctx.sessionKey = "" /\ ctx.sessionId # "" -> ctx.sessionId
      [] OTHER -> "__global__"

\* C20: in any interleaving of invocations across sessions, an invocation
\* reads and updates the trigger state of its own key only (sessionKey, else
\* sessionId, else "__global__"): the state of every other key is left as it
\* was, a cooldown is decided by the prunes of the same key alone, and the
\* decision and the update are one step.
C20_SessionIsolation ==
    [][\A ctx \in Contexts :
        (ev' # Idle /\ ev'[1].key = sessionKeyOf(ctx) /\ HookInvoke(ctx)) =>
            LET key == KeyOfSession(ctx)
                inv == ev'[1]
            IN  /\ inv.key = key
                /\ \A k \in SessionKeys \ {key} : sessionState'[k] = sessionState[k]
                /\ inv.outcome = "cooldown" =>
                    /\ sessionState[key].pruneCount > 0
                    /\ NumLt(Int2Num(inv.totalTokens
                                        - sessionState[key].lastTriggerTokenCount),
                             config.trigger_every_n_tokens)
                /\ inv.outcome = "pass" =>
                    /\ sessionState'[key].lastTriggerTokenCount = inv.totalTokens
                    /\ sessionState'[key].pruneCount =
                            sessionState[key].pruneCount + (IF inv.changed THEN 1 ELSE 0)
                /\ inv.outcome \in {"empty", "below", "cooldown"} =>
                    sessionState' = sessionState]_vars

\* A session runs a pass at a size at which another session, having pruned
\* at that size, is in cooldown
C20_Witness ==
    /\ ev # Idle
    /\ LastInvocation.outcome = "pass"
    /\ \E k \in SessionKeys \ {LastInvocation.key} :
        /\ sessionState[k].pruneCount > 0
        /\ cooldownActive(LastInvocation.totalTokens, sessionState[k], config)

====
